---- MODULE Spec2Model ----
(***************************************************************************)
(* Model of plugins/modules/cloud/lxd/lxd_container.py: one run of         *)
(* LXDContainerManagement.run() against an LXD control plane.              *)
(*                                                                         *)
(* A run is sequential.  Each client call of the run is one step of the    *)
(* model: authenticate, the instance fetch, each lifecycle wrapper         *)
(* (_create_container .. _apply_container_configs), each iteration of the  *)
(* address poll, and the final exit_json.  A client call may raise         *)
(* LXDClientException; the except clause of run() (fail_json) is part of   *)
(* the step that raised.                                                   *)
(*                                                                         *)
(* Left out: the url, key and certificate of the client, the target node   *)
(* of create, the timeout and force members of a state request's body,     *)
(* and the debug logs (the verbosity stays below 4); no property below     *)
(* reads them.  A client the constructor of LXDClient rejects ends         *)
(* __init__ with fail_json before run() starts.                            *)
(*                                                                         *)
(* Python values: a dict is a function, a list a sequence, None is the     *)
(* empty sequence and a present optional value v is <<v>>.  A config key   *)
(* "ns.rest" is the pair <<"ns", "rest">>, so that                         *)
(* k.startswith('volatile.') is k[1] = "volatile".                         *)
(***************************************************************************)
EXTENDS Naturals, Sequences, FiniteSets, TLC

(***************************************************************************)
(* Bounds of the model.                                                    *)
(***************************************************************************)
\* largest value of the timeout parameter, in seconds
MaxTimeout == 2

\* largest value of module._verbosity
MaxVerbosity == 1

(***************************************************************************)
(* Module constants.                                                       *)
(***************************************************************************)
LXD_ANSIBLE_STATES ==
    [started |-> "_started", stopped |-> "_stopped", restarted |-> "_restarted",
     absent |-> "_destroyed", frozen |-> "_frozen"]

ANSIBLE_LXD_STATES ==
    [Running |-> "started", Stopped |-> "stopped", Frozen |-> "frozen"]

CONFIG_PARAMS ==
    {"architecture", "config", "devices", "ephemeral", "profiles", "source", "type"}

CONFIG_CREATION_PARAMS == {"source", "type"}

None == << >>
Some(v) == << v >>

\* dict(a) ; a.update(b): the keys of b overwrite or extend a
Update(a, b) ==
    [k \in (DOMAIN a) \cup (DOMAIN b) |-> IF k \in DOMAIN b THEN b[k] ELSE a[k]]

\* dict((k, v) for k, v in d.items() if k in keys)
Restrict(d, keys) == [k \in (DOMAIN d) \cap keys |-> d[k]]

\* k.startswith('volatile.')
StartsWithVolatile(k) == k[1] = "volatile"

(***************************************************************************)
(* Inputs: the values the parameters and the control plane are drawn from. *)
(***************************************************************************)
CpuKey == <<"limits", "cpu">>
VolatileKey == <<"volatile", "base_image">>

\* config maps an instance can carry on the control plane
ObservedConfigMaps ==
    { [k \in ks |-> IF k = CpuKey THEN v ELSE "abc"] :
          ks \in SUBSET {CpuKey, VolatileKey}, v \in {"1", "2"} }

\* config maps a caller can declare
DesiredConfigMaps ==
    { [k \in ks |-> IF k = CpuKey THEN v ELSE "abc"] :
          ks \in SUBSET {CpuKey}, v \in {"1", "2"} }

\* metadata of an existing instance as GET <endpoint>/<name> returns it
InstanceMetadata(status, cfg, eph) ==
    [name |-> "c1", status |-> status, type |-> "container",
     architecture |-> "x86_64", config |-> cfg, devices |-> << >>,
     ephemeral |-> eph, profiles |-> <<"default">>]

ObservedMetadata ==
    { InstanceMetadata(s, c, e) :
          s \in {"Running", "Stopped", "Frozen"}, c \in ObservedConfigMaps,
          e \in BOOLEAN }

\* the attributes a caller can declare; type always has a value (its default)
DesiredConfigs ==
    { Update([type |-> "container"], Update(c, e)) :
          c \in {<< >>} \cup { [config |-> m] : m \in DesiredConfigMaps },
          e \in {<< >>, [ephemeral |-> TRUE]} }

\* The wider attribute values of the specification SpecConfig.
ImageKey == <<"image", "os">>

\* config maps an instance can carry: a limit, a volatile key, an image key
WideObservedConfigMaps ==
    { [k \in ks |-> IF k = CpuKey THEN v ELSE IF k = VolatileKey THEN "abc" ELSE "ubuntu"] :
          ks \in SUBSET {CpuKey, VolatileKey, ImageKey}, v \in {"1", "2"} }

\* config maps a caller can declare, volatile keys among them
WideDesiredConfigMaps ==
    { [k \in ks |-> IF k = CpuKey THEN v ELSE w] :
          ks \in SUBSET {CpuKey, VolatileKey}, v \in {"1", "2"}, w \in {"abc", "xyz"} }

WideObservedMetadata ==
    { [InstanceMetadata("Running", c, e) EXCEPT !.devices = d] :
          c \in WideObservedConfigMaps, e \in BOOLEAN,
          d \in {<< >>, [root |-> "disk"]} }

\* the declared attributes: each of config, ephemeral, devices and source given
\* or left out, and either instance type
WideDesiredConfigs ==
    { Update(Update(Update(c, e), Update(d, src)), [type |-> t]) :
          c \in {<< >>} \cup { [config |-> m] : m \in WideDesiredConfigMaps },
          e \in {<< >>, [ephemeral |-> TRUE], [ephemeral |-> FALSE]},
          d \in {<< >>, [devices |-> << >>]},
          src \in {<< >>, [source |-> [type |-> "image", alias |-> "ubuntu"]]},
          t \in {"container", "virtual-machine"} }

\* the lists of addresses a network device can report
Inet(a) == [family |-> "inet", address |-> a]
Inet6(a) == [family |-> "inet6", address |-> a]
Device(addrs) == [addresses |-> addrs]

\* metadata.network of GET <endpoint>/<name>/state: null, or device -> state
NetworkStates ==
    { None,
      Some([lo |-> Device(<<Inet("127.0.0.1")>>)]),
      Some([lo |-> Device(<<Inet("127.0.0.1")>>), eth0 |-> Device(<< >>)]),
      Some([lo |-> Device(<<Inet("127.0.0.1")>>),
            eth0 |-> Device(<<Inet6("fe80::1")>>)]),
      Some([lo |-> Device(<<Inet("127.0.0.1")>>),
            eth0 |-> Device(<<Inet6("fe80::1"), Inet("10.0.0.2")>>)]),
      Some([eth0 |-> Device(<<Inet("10.0.0.2")>>), eth1 |-> Device(<< >>)]),
      Some([eth0 |-> Device(<<Inet("10.0.0.2")>>),
            eth1 |-> Device(<<Inet("10.0.1.2")>>)]) }

VARIABLES
    \* module parameters, fixed by __init__
    check_mode,               \* module.check_mode
    state,                    \* self.state
    wait_for_ipv4_addresses,  \* self.wait_for_ipv4_addresses
    trust_password,           \* self.trust_password: None or Some(secret)
    timeout,                  \* self.timeout
    config,                   \* self.config, built by _build_config
    _verbosity,               \* module._verbosity
    \* the control plane
    srv_status,               \* "absent" or the instance's status
    srv_metadata,             \* the instance's metadata (<< >> when absent)
    requests,                 \* the client calls issued so far, in order
    \* the run
    pc,                       \* position of run()
    calls,                    \* methods the handler has still to call
    observed,                 \* the response of _get_container_json, as received
    old_container_json,       \* self.old_container_json
    old_state,                \* self.old_state
    actions,                  \* self.actions
    diff,                     \* self.diff
    addresses,                \* self.addresses
    elapsed,                  \* seconds since _get_addresses computed due
    waited,                   \* _get_addresses has been entered
    state_json,               \* the last response of _get_container_state_json
    ops,                      \* wrapper methods called so far, in order
    outcome,                  \* "running", "exit_json", "fail_json", "crash"
    result                    \* keyword arguments of exit_json / fail_json

params == <<check_mode, state, wait_for_ipv4_addresses, trust_password, timeout, config,
            _verbosity>>
server == <<srv_status, srv_metadata>>
run_vars == <<pc, calls, observed, old_container_json, old_state, actions, diff, addresses,
              elapsed, waited, state_json, ops, outcome, result>>
vars == <<params, server, requests, run_vars>>

Request(m, p, a) == [method |-> m, path |-> p, action |-> a]

\* the request LXDClient.authenticate sends: a call of the control plane that
\* is not one of its reads
AuthenticateRequest == Request("authenticate", "/certificates", "")

\* old_container_json and old_state do not exist before run() assigns them
Unset == [type |-> "unset", metadata |-> << >>]

(***************************************************************************)
(* The control plane, as the client sees it.                               *)
(***************************************************************************)
\* the JSON value null where a dict is expected
JsonNull == [null |-> TRUE]

\* the error responses of a 404, which the client returns and does not raise
\* (ok_error_codes=[404]): the metadata member is an empty dict, null, or
\* not there
NotFoundResponses ==
    { [type |-> "error", metadata |-> << >>],
      [type |-> "error", metadata |-> JsonNull],
      [type |-> "error"] }

\* the responses the control plane can give to GET <endpoint>/<name>
InstanceResponses(status, metadata) ==
    IF status = "absent"
    THEN NotFoundResponses
    ELSE {[type |-> "sync", metadata |-> metadata]}

\* resp_json['metadata'] is there and is a dict
HasMetadataDict(resp_json) ==
    "metadata" \in DOMAIN resp_json /\ resp_json.metadata # JsonNull

\* the status after a lifecycle request that the control plane accepted; a
\* request outside the states of the operation's precondition changes nothing
ServerStatusAfter(status, op) ==
    CASE op = "create" /\ status = "absent" -> "Stopped"
      [] op = "start" /\ status = "Stopped" -> "Running"
      [] op = "stop" /\ status \in {"Running", "Frozen"} -> "Stopped"
      [] op = "restart" /\ status = "Running" -> "Running"
      [] op = "delete" /\ status = "Stopped" -> "absent"
      [] op = "freeze" /\ status = "Running" -> "Frozen"
      [] op = "unfreeze" /\ status = "Frozen" -> "Running"
      [] OTHER -> status

\* the metadata after a lifecycle request that the control plane accepted
ServerMetadataAfter(status, metadata, op, body) ==
    LET after == ServerStatusAfter(status, op) IN
    IF after = "absent" THEN << >>
    ELSE IF op = "create" /\ status = "absent"
    THEN Update(InstanceMetadata(after, << >>, FALSE),
                Restrict(body, CONFIG_PARAMS \ {"source"}))
    ELSE IF op = "apply_container_configs" /\ status # "absent"
    THEN Update(metadata, body)
    ELSE IF status # "absent" THEN [metadata EXCEPT !.status = after]
    ELSE metadata

(***************************************************************************)
(* ConfigDiffer: _needs_to_change_container_config and                     *)
(* _needs_to_apply_container_configs, with self.config and                 *)
(* self.old_container_json as parameters.                                  *)
(***************************************************************************)
_needs_to_change_container_config(cfg, old_json, key) ==
    IF key \notin DOMAIN cfg THEN FALSE
    ELSE IF key = "config"
    THEN LET old_all == old_json.metadata[key]
             old_configs ==
                 Restrict(old_all, {k \in DOMAIN old_all : ~StartsWithVolatile(k)})
         IN \E k \in DOMAIN cfg["config"] :
                \/ k \notin DOMAIN old_configs
                \/ old_configs[k] # cfg["config"][k]
    ELSE cfg[key] # old_json.metadata[key]

_needs_to_apply_container_configs(cfg, old_json) ==
    \E param \in CONFIG_PARAMS \ CONFIG_CREATION_PARAMS :
        _needs_to_change_container_config(cfg, old_json, param)

\* body_json as it would be if the declared config replaced the observed one
ApplyBodyJson_replace(cfg, old_json) ==
    LET old_metadata == old_json.metadata
        changing == {p \in CONFIG_PARAMS \ CONFIG_CREATION_PARAMS :
                        _needs_to_change_container_config(cfg, old_json, p)}
        keep == (CONFIG_PARAMS \ CONFIG_CREATION_PARAMS) \cap DOMAIN old_metadata
    IN [p \in keep \cup changing |->
            IF p \notin changing THEN old_metadata[p] ELSE cfg[p]]

\* body_json of _apply_container_configs
ApplyBodyJson(cfg, old_json) ==
    LET old_metadata == old_json.metadata
        changing == {p \in CONFIG_PARAMS \ CONFIG_CREATION_PARAMS :
                        _needs_to_change_container_config(cfg, old_json, p)}
        keep == (CONFIG_PARAMS \ CONFIG_CREATION_PARAMS) \cap DOMAIN old_metadata
    IN [p \in keep \cup changing |->
            IF p \notin changing THEN old_metadata[p]
            ELSE IF p = "config" THEN Update(old_metadata[p], cfg["config"])
            ELSE cfg[p]]

\* old_sections / diff['before']['instance'] of run(): the generator tests
\* isinstance(section, dict) on the key, which is a string, so every section
\* is taken as it is
DiffBeforeInstance(old_json) ==
    LET old_sections ==
            Restrict(old_json.metadata, CONFIG_PARAMS \ CONFIG_CREATION_PARAMS)
    IN [section \in DOMAIN old_sections |-> old_sections[section]]

(***************************************************************************)
(* AddressWaiter helpers.                                                  *)
(***************************************************************************)
\* _container_ipv4_addresses applied to metadata.network of the response
_container_ipv4_addresses(net) ==
    LET ignore_devices == {"lo"}
        network0 == IF net = None THEN << >> ELSE net[1]
        network == Restrict(network0, (DOMAIN network0) \ ignore_devices)
        IsInet(a) == a.family = "inet"
        Ipv4(v) == LET sel == SelectSeq(v.addresses, IsInet)
                   IN [i \in 1..Len(sel) |-> sel[i].address]
    IN [k \in DOMAIN network |-> Ipv4(network[k])]

\* the check as it would be if one device with an address were enough
_has_any_ipv4_addresses(addrs) ==
    /\ Cardinality(DOMAIN addrs) > 0
    /\ \E k \in DOMAIN addrs : Len(addrs[k]) > 0

_has_all_ipv4_addresses(addrs) ==
    /\ Cardinality(DOMAIN addrs) > 0
    /\ \A k \in DOMAIN addrs : Len(addrs[k]) > 0

(***************************************************************************)
(* TransitionPlanner: the handlers, each as the sequence of methods it     *)
(* calls, in order, for the observed state old, the declared attributes    *)
(* cfg, the fetched instance old_json and the wait flag.                   *)
(***************************************************************************)
ApplyIfNeeded(cfg, old_json) ==
    IF _needs_to_apply_container_configs(cfg, old_json)
    THEN <<"_apply_container_configs">> ELSE << >>

\* the wait as it would be if it did not depend on wait_for_ipv4_addresses
GetAddressesIf_always(wait) == <<"_get_addresses">>

GetAddressesIf(wait) == IF wait THEN <<"_get_addresses">> ELSE << >>

\* _started as it would be if the config were applied whether or not it differs
_started_always_apply(old, cfg, old_json, wait) ==
    (IF old = "absent"
     THEN <<"_create_container", "_start_container">>
     ELSE (IF old = "frozen" THEN <<"_unfreeze_container">>
           ELSE IF old = "stopped" THEN <<"_start_container">>
           ELSE << >>)
          \o <<"_apply_container_configs">>)
    \o GetAddressesIf(wait)

\* _started as it would be if the config were applied before the instance is
\* started or unfrozen
_started_apply_first(old, cfg, old_json, wait) ==
    (IF old = "absent"
     THEN <<"_create_container", "_start_container">>
     ELSE ApplyIfNeeded(cfg, old_json)
          \o (IF old = "frozen" THEN <<"_unfreeze_container">>
              ELSE IF old = "stopped" THEN <<"_start_container">>
              ELSE << >>))
    \o GetAddressesIf(wait)

_started(old, cfg, old_json, wait) ==
    (IF old = "absent"
     THEN <<"_create_container", "_start_container">>
     ELSE (IF old = "frozen" THEN <<"_unfreeze_container">>
           ELSE IF old = "stopped" THEN <<"_start_container">>
           ELSE << >>)
          \o ApplyIfNeeded(cfg, old_json))
    \o GetAddressesIf(wait)

\* _stopped as it would be if a stopped instance were reconfigured in place
_stopped_apply_in_place(old, cfg, old_json, wait) ==
    IF old = "absent"
    THEN <<"_create_container">>
    ELSE IF old = "stopped"
    THEN ApplyIfNeeded(cfg, old_json)
    ELSE (IF old = "frozen" THEN <<"_unfreeze_container">> ELSE << >>)
         \o ApplyIfNeeded(cfg, old_json)
         \o <<"_stop_container">>

_stopped(old, cfg, old_json, wait) ==
    IF old = "absent"
    THEN <<"_create_container">>
    ELSE IF old = "stopped"
    THEN IF _needs_to_apply_container_configs(cfg, old_json)
         THEN <<"_start_container", "_apply_container_configs", "_stop_container">>
         ELSE << >>
    ELSE (IF old = "frozen" THEN <<"_unfreeze_container">> ELSE << >>)
         \o ApplyIfNeeded(cfg, old_json)
         \o <<"_stop_container">>

\* _restarted as it would be if a created instance were restarted as well
_restarted_after_create(old, cfg, old_json, wait) ==
    ((IF old = "absent"
      THEN <<"_create_container", "_start_container">>
      ELSE (IF old = "frozen" THEN <<"_unfreeze_container">> ELSE << >>)
           \o ApplyIfNeeded(cfg, old_json))
     \o <<"_restart_container">>)
    \o GetAddressesIf(wait)

_restarted(old, cfg, old_json, wait) ==
    (IF old = "absent"
     THEN <<"_create_container", "_start_container">>
     ELSE (IF old = "frozen" THEN <<"_unfreeze_container">> ELSE << >>)
          \o ApplyIfNeeded(cfg, old_json)
          \o <<"_restart_container">>)
    \o GetAddressesIf(wait)

\* _destroyed as it would be if a frozen instance were stopped without being
\* unfrozen first
_destroyed_no_unfreeze(old, cfg, old_json, wait) ==
    IF old # "absent"
    THEN (IF old # "stopped" THEN <<"_stop_container">> ELSE << >>)
         \o <<"_delete_container">>
    ELSE << >>

_destroyed(old, cfg, old_json, wait) ==
    IF old # "absent"
    THEN (IF old = "frozen" THEN <<"_unfreeze_container">> ELSE << >>)
         \o (IF old # "stopped" THEN <<"_stop_container">> ELSE << >>)
         \o <<"_delete_container">>
    ELSE << >>

\* _frozen as it would be if freeze were suppressed for a frozen instance
_frozen_unless_frozen(old, cfg, old_json, wait) ==
    IF old = "absent"
    THEN <<"_create_container", "_start_container", "_freeze_container">>
    ELSE (IF old = "stopped" THEN <<"_start_container">> ELSE << >>)
         \o ApplyIfNeeded(cfg, old_json)
         \o (IF old = "frozen" THEN << >> ELSE <<"_freeze_container">>)

_frozen(old, cfg, old_json, wait) ==
    IF old = "absent"
    THEN <<"_create_container", "_start_container", "_freeze_container">>
    ELSE (IF old = "stopped" THEN <<"_start_container">> ELSE << >>)
         \o ApplyIfNeeded(cfg, old_json)
         \o <<"_freeze_container">>

\* action = getattr(self, LXD_ANSIBLE_STATES[self.state]); action()
Handler(st, old, cfg, old_json, wait) ==
    LET method == LXD_ANSIBLE_STATES[st] IN
    CASE method = "_started" -> _started(old, cfg, old_json, wait)
      [] method = "_stopped" -> _stopped(old, cfg, old_json, wait)
      [] method = "_restarted" -> _restarted(old, cfg, old_json, wait)
      [] method = "_destroyed" -> _destroyed(old, cfg, old_json, wait)
      [] method = "_frozen" -> _frozen(old, cfg, old_json, wait)

_container_json_to_module_state(resp_json) ==
    IF resp_json.type = "error" THEN "absent"
    ELSE ANSIBLE_LXD_STATES[resp_json.metadata.status]

(***************************************************************************)
(* State after __init__.                                                   *)
(***************************************************************************)
\* __init__: LXDClient(...) returns the client and run() is to start, or it
\* raises LXDClientException and __init__ ends with fail_json(msg=e.msg)
ClientConstructed ==
    \/ /\ pc = "authenticate"
       /\ outcome = "running"
       /\ result = << >>
    \/ /\ pc = "done"
       /\ outcome = "fail_json"
       /\ result = [msg |-> "LXDClientException"]

Init ==
    /\ check_mode \in BOOLEAN
    /\ state \in DOMAIN LXD_ANSIBLE_STATES
    /\ wait_for_ipv4_addresses \in BOOLEAN
    /\ trust_password \in {None, Some("secret")}
    /\ timeout \in 0..MaxTimeout
    /\ config \in DesiredConfigs
    /\ \/ srv_status = "absent" /\ srv_metadata = << >>
       \/ srv_metadata \in ObservedMetadata /\ srv_status = srv_metadata.status
    /\ _verbosity \in 0..MaxVerbosity
    /\ requests = << >>
    /\ calls = << >>
    /\ observed = Unset
    /\ old_container_json = Unset
    /\ old_state = "unset"
    /\ actions = << >>
    /\ diff = [before |-> << >>, after |-> << >>]
    /\ addresses = None
    /\ elapsed = 0
    /\ waited = FALSE
    /\ state_json = Unset
    /\ ops = << >>
    /\ ClientConstructed

(***************************************************************************)
(* The run.                                                                *)
(***************************************************************************)
\* the method the handler calls next, "exit" when the handler has returned
NextCall == IF calls # << >> THEN Head(calls) ELSE "exit"

\* fail_json as it would be if a failure always reported changed = false
FailJson_unchanged(msg, acts, d) ==
    /\ outcome' = "fail_json"
    /\ result' = [msg |-> msg, changed |-> FALSE, actions |-> acts, diff |-> d]
    /\ pc' = "done"

\* except LXDClientException in run(): fail_json with what has accumulated
FailJson(msg, acts, d) ==
    /\ outcome' = "fail_json"
    /\ result' = [msg |-> msg, changed |-> Len(acts) > 0, actions |-> acts, diff |-> d]
    /\ pc' = "done"

\* the authentication as it would be if it moved after the fetch when no
\* password is given
Authenticate_late ==
    /\ pc = "authenticate"
    /\ UNCHANGED <<params, server, calls, observed, old_container_json, old_state,
                   actions, diff, addresses, elapsed, waited, state_json, ops>>
    /\ IF trust_password # None
       THEN /\ pc' = "fetch"
            /\ UNCHANGED <<requests, outcome, result>>
       ELSE /\ requests' = Append(requests, AuthenticateRequest)
            /\ \/ pc' = "fetch" /\ UNCHANGED <<outcome, result>>
               \/ FailJson("LXDClientException", actions, diff)

\* run(): if self.trust_password is not None: self.client.authenticate(..)
Authenticate ==
    /\ pc = "authenticate"
    /\ UNCHANGED <<params, server, calls, observed, old_container_json, old_state,
                   actions, diff, addresses, elapsed, waited, state_json, ops>>
    /\ IF trust_password = None
       THEN /\ pc' = "fetch"
            /\ UNCHANGED <<requests, outcome, result>>
       ELSE /\ requests' = Append(requests, AuthenticateRequest)
            /\ \/ pc' = "fetch" /\ UNCHANGED <<outcome, result>>
               \/ FailJson("LXDClientException", actions, diff)

\* run(): _get_container_json, old_state, the before/after states of diff, and
\* the dispatch to the handler of self.state.  The handler's branches read
\* old_state, self.config and old_container_json before any step writes
\* them, so the methods it will call are fixed when it is entered.
Fetch ==
    /\ pc = "fetch"
    /\ requests' = Append(requests, Request("GET", "/name", ""))
    /\ UNCHANGED <<params, server, actions, addresses, elapsed, waited, state_json, ops>>
    /\ \/ \E json \in InstanceResponses(srv_status, srv_metadata) :
             LET old == _container_json_to_module_state(json) IN
             /\ observed' = json
             /\ old_container_json' = json
             /\ old_state' = old
             /\ IF HasMetadataDict(json)
                THEN /\ calls' = Handler(state, old, config, json,
                                         wait_for_ipv4_addresses)
                     /\ diff' = [before |-> [state |-> old,
                                             instance |-> DiffBeforeInstance(json)],
                                 after |-> [state |-> state]]
                     /\ pc' = "action"
                     /\ UNCHANGED <<outcome, result>>
                ELSE \* old_container_json['metadata'].items() raises
                     \* KeyError or AttributeError, which run() does not catch
                     /\ diff' = [before |-> [state |-> old],
                                 after |-> [state |-> state]]
                     /\ outcome' = "crash"
                     /\ pc' = "done"
                     /\ UNCHANGED <<calls, result>>
       \/ /\ FailJson("LXDClientException", actions, diff)
          /\ UNCHANGED <<calls, observed, old_container_json, old_state, diff>>

\* A lifecycle wrapper that sends one request unless check_mode is set and
\* then appends `logged` to self.actions.
Wrapper(op, req, logged) ==
    /\ ops' = Append(ops, op)
    /\ UNCHANGED <<params, observed, old_container_json, old_state, diff, addresses,
                   elapsed, waited, state_json>>
    /\ IF check_mode
       THEN /\ actions' = Append(actions, logged)
            /\ calls' = Tail(calls)
            /\ UNCHANGED <<server, requests, pc, outcome, result>>
       ELSE /\ requests' = Append(requests, req)
            /\ \/ /\ srv_status' = ServerStatusAfter(srv_status, op)
                  /\ srv_metadata' =
                         ServerMetadataAfter(srv_status, srv_metadata, op, config)
                  /\ actions' = Append(actions, logged)
                  /\ calls' = Tail(calls)
                  /\ UNCHANGED <<pc, outcome, result>>
               \/ /\ FailJson("LXDClientException", actions, diff)
                  /\ UNCHANGED <<server, actions, calls>>

\* _change_state: PUT <endpoint>/<name>/state with the action
ChangeStateRequest(action) == Request("PUT", "/name/state", action)

CreateContainer ==
    /\ pc = "action"
    /\ NextCall = "_create_container"
    /\ Wrapper("create", Request("POST", "", ""), "create")

StartContainer ==
    /\ pc = "action"
    /\ NextCall = "_start_container"
    /\ Wrapper("start", ChangeStateRequest("start"), "start")

StopContainer ==
    /\ pc = "action"
    /\ NextCall = "_stop_container"
    /\ Wrapper("stop", ChangeStateRequest("stop"), "stop")

RestartContainer ==
    /\ pc = "action"
    /\ NextCall = "_restart_container"
    /\ Wrapper("restart", ChangeStateRequest("restart"), "restart")

DeleteContainer ==
    /\ pc = "action"
    /\ NextCall = "_delete_container"
    /\ Wrapper("delete", Request("DELETE", "/name", ""), "delete")

FreezeContainer ==
    /\ pc = "action"
    /\ NextCall = "_freeze_container"
    /\ Wrapper("freeze", ChangeStateRequest("freeze"), "freeze")

UnfreezeContainer ==
    /\ pc = "action"
    /\ NextCall = "_unfreeze_container"
    /\ Wrapper("unfreeze", ChangeStateRequest("unfreeze"), "unfreez")

\* _apply_container_configs.  body_json['config'] is the dict object that
\* old_container_json['metadata']['config'] and diff['before']['instance']
\* ['config'] also refer to, so writing the declared keys into it writes them
\* into all three; diff['after']['instance'] is set before the request.
ApplyContainerConfigs ==
    /\ pc = "action"
    /\ NextCall = "_apply_container_configs"
    /\ ops' = Append(ops, "apply_container_configs")
    /\ UNCHANGED <<params, observed, old_state, addresses, elapsed, waited, state_json>>
    /\ LET body_json == ApplyBodyJson(config, old_container_json)
           aliased == "config" \in DOMAIN body_json
           json == IF aliased
                   THEN [old_container_json EXCEPT !.metadata.config = body_json.config]
                   ELSE old_container_json
           d == [before |-> IF aliased
                            THEN [diff.before EXCEPT !.instance.config = body_json.config]
                            ELSE diff.before,
                 after |-> Update(diff.after, [instance |-> body_json])]
       IN /\ old_container_json' = json
          /\ diff' = d
          /\ IF check_mode
             THEN /\ actions' = Append(actions, "apply_container_configs")
                  /\ calls' = Tail(calls)
                  /\ UNCHANGED <<server, requests, pc, outcome, result>>
             ELSE /\ requests' = Append(requests, Request("PUT", "/name", ""))
                  /\ \/ /\ srv_status' = srv_status
                        /\ srv_metadata' =
                               ServerMetadataAfter(srv_status, srv_metadata,
                                                   "apply_container_configs", body_json)
                        /\ actions' = Append(actions, "apply_container_configs")
                        /\ calls' = Tail(calls)
                        /\ UNCHANGED <<pc, outcome, result>>
                     \/ /\ FailJson("LXDClientException", actions, d)
                        /\ UNCHANGED <<server, actions, calls>>

\* _get_addresses, one iteration of the loop: sleep a second, fetch the
\* state, keep the addresses if every device has one.  The loop compares the
\* wall clock with due: an iteration takes the second it sleeps and the time
\* of the request, one second or more, counted up to the deadline.  The
\* response of an
\* instance that does not exist is an error response without
\* metadata.network: subscripting it raises an exception run() does not catch.
GetAddressesPoll ==
    /\ pc = "action"
    /\ NextCall = "_get_addresses"
    /\ elapsed < timeout
    /\ \E seconds \in 1..(timeout - elapsed) : elapsed' = elapsed + seconds
    /\ waited' = TRUE
    /\ requests' = Append(requests, Request("GET", "/name/state", ""))
    /\ UNCHANGED <<params, server, observed, old_container_json, old_state, actions,
                   diff, ops>>
    /\ \/ /\ srv_status # "absent"
          /\ \E net \in NetworkStates :
                 LET addrs == _container_ipv4_addresses(net) IN
                 /\ state_json' = [type |-> "sync", metadata |-> [network |-> net]]
                 /\ IF _has_all_ipv4_addresses(addrs)
                    THEN addresses' = Some(addrs) /\ calls' = Tail(calls)
                    ELSE UNCHANGED <<addresses, calls>>
          /\ UNCHANGED <<pc, outcome, result>>
       \/ /\ srv_status = "absent"
          /\ state_json' \in NotFoundResponses
          /\ outcome' = "crash"
          /\ pc' = "done"
          /\ UNCHANGED <<addresses, calls, result>>
       \/ /\ FailJson("timeout for getting IPv4 addresses", actions, diff)
          /\ UNCHANGED <<addresses, calls, state_json>>

\* _get_addresses: the loop condition datetime.now() < due is false; the
\* method returns without a value and without raising
GetAddressesDue ==
    /\ pc = "action"
    /\ NextCall = "_get_addresses"
    /\ elapsed >= timeout
    /\ waited' = TRUE
    /\ calls' = Tail(calls)
    /\ UNCHANGED <<params, server, requests, pc, observed, old_container_json,
                   old_state, actions, diff, addresses, elapsed, state_json, ops,
                   outcome, result>>

\* run(): the handler returned; exit_json(**result_json)
ExitJson ==
    /\ pc = "action"
    /\ NextCall = "exit"
    /\ outcome' = "exit_json"
    /\ result' = Update([log_verbosity |-> _verbosity,
                         changed |-> Len(actions) > 0, old_state |-> old_state,
                         actions |-> actions, diff |-> diff],
                        IF addresses # None
                        THEN [addresses |-> addresses[1]] ELSE << >>)
    /\ pc' = "done"
    /\ UNCHANGED <<params, server, requests, calls, observed, old_container_json,
                   old_state, actions, diff, addresses, elapsed, waited, state_json, ops>>

Next ==
    \/ Authenticate
    \/ Fetch
    \/ CreateContainer
    \/ StartContainer
    \/ StopContainer
    \/ RestartContainer
    \/ DeleteContainer
    \/ FreezeContainer
    \/ UnfreezeContainer
    \/ ApplyContainerConfigs
    \/ GetAddressesPoll
    \/ GetAddressesDue
    \/ ExitJson

Spec == Init /\ [][Next]_vars

(***************************************************************************)
(* The same run with state=started on a running instance, no credential    *)
(* and no address wait, over the wider attribute values: what the          *)
(* ConfigDiffer decides and what apply-config pushes.                      *)
(***************************************************************************)
InitConfig ==
    /\ check_mode \in BOOLEAN
    /\ state = "started"
    /\ wait_for_ipv4_addresses = FALSE
    /\ trust_password = None
    /\ timeout = 0
    /\ config \in WideDesiredConfigs
    /\ srv_metadata \in WideObservedMetadata
    /\ srv_status = srv_metadata.status
    /\ _verbosity \in 0..MaxVerbosity
    /\ requests = << >>
    /\ calls = << >>
    /\ observed = Unset
    /\ old_container_json = Unset
    /\ old_state = "unset"
    /\ actions = << >>
    /\ diff = [before |-> << >>, after |-> << >>]
    /\ addresses = None
    /\ elapsed = 0
    /\ waited = FALSE
    /\ state_json = Unset
    /\ ops = << >>
    /\ ClientConstructed

NextConfig ==
    \/ Authenticate
    \/ Fetch
    \/ ApplyContainerConfigs
    \/ ExitJson

SpecConfig == InitConfig /\ [][NextConfig]_vars

(***************************************************************************)
(* Properties.                                                             *)
(*                                                                         *)
(* ops lists the lifecycle operations of the run by operation name, in the *)
(* order the run executed them; observed is the instance as the fetch      *)
(* returned it.                                                            *)
(***************************************************************************)
\* needsApply of the declared attributes against the observed instance
ObservedNeedsApply ==
    /\ observed.type = "sync"
    /\ _needs_to_apply_container_configs(config, observed)

ApplyConfigIf(b) == IF b THEN <<"apply_container_configs">> ELSE << >>

\* the run ended with exit_json
Succeeded == pc = "done" /\ outcome = "exit_json"

\* C1 (as claimed): for every desired target in started, stopped, frozen and
\* absent, when the observed state equals the target and needsApply is false,
\* the run executes no operation, the action log is empty and changed is false.
C1_Idempotence ==
    (/\ state \in {"started", "stopped", "frozen", "absent"}
     /\ old_state = state
     /\ ~ObservedNeedsApply)
    => /\ ops = << >>
       /\ actions = << >>
       /\ "changed" \in DOMAIN result => ~result.changed

\* C1 (amended): the same for the targets started, stopped and absent; a
\* frozen instance with target frozen is sent freeze again.
C1_IdempotenceExceptFrozen ==
    (/\ state \in {"started", "stopped", "absent"}
     /\ old_state = state
     /\ ~ObservedNeedsApply)
    => /\ ops = << >>
       /\ actions = << >>
       /\ "changed" \in DOMAIN result => ~result.changed

\* C1 witness: a real run on a stopped instance whose declared config equals
\* the observed one ended with changed = false.
C1_Witness ==
    /\ Succeeded /\ ~check_mode
    /\ state = "stopped" /\ old_state = "stopped"
    /\ "config" \in DOMAIN config /\ config["config"] # << >>
    /\ ~ObservedNeedsApply
    /\ result.changed = FALSE /\ result.actions = << >>

\* C2: for desired=started a run that ended with exit_json executed exactly
\* [create, start] from Absent, [unfreeze] + apply-config-iff-needsApply from
\* Frozen, [start] + apply-config-iff-needsApply from Stopped, and
\* apply-config-iff-needsApply from Running.
C2_StartedSequence ==
    (Succeeded /\ state = "started")
    => ops = CASE old_state = "absent" -> <<"create", "start">>
               [] old_state = "frozen" ->
                      <<"unfreeze">> \o ApplyConfigIf(ObservedNeedsApply)
               [] old_state = "stopped" ->
                      <<"start">> \o ApplyConfigIf(ObservedNeedsApply)
               [] old_state = "started" -> ApplyConfigIf(ObservedNeedsApply)

\* C2 witness: a real run started a stopped instance and then applied config.
C2_Witness ==
    /\ Succeeded /\ ~check_mode /\ state = "started" /\ old_state = "stopped"
    /\ ObservedNeedsApply
    /\ ops = <<"start", "apply_container_configs">>

\* C3: for desired=stopped a run that ended with exit_json executed exactly
\* [create] from Absent, [start, apply-config, stop] from Stopped with
\* needsApply, nothing from Stopped without, [unfreeze, apply-config iff
\* needsApply, stop] from Frozen and [apply-config iff needsApply, stop] from
\* Running.
C3_StoppedSequence ==
    (Succeeded /\ state = "stopped")
    => ops = CASE old_state = "absent" -> <<"create">>
               [] old_state = "stopped" /\ ObservedNeedsApply ->
                      <<"start", "apply_container_configs", "stop">>
               [] old_state = "stopped" /\ ~ObservedNeedsApply -> << >>
               [] old_state = "frozen" ->
                      <<"unfreeze">> \o ApplyConfigIf(ObservedNeedsApply) \o <<"stop">>
               [] old_state = "started" ->
                      ApplyConfigIf(ObservedNeedsApply) \o <<"stop">>

\* C3 witness: a real run started, reconfigured and stopped a stopped instance.
C3_Witness ==
    /\ Succeeded /\ ~check_mode /\ state = "stopped" /\ old_state = "stopped"
    /\ ObservedNeedsApply
    /\ ops = <<"start", "apply_container_configs", "stop">>

\* C4: for desired=absent a run that ended with exit_json executed exactly
\* nothing from Absent, [delete] from Stopped, [stop, delete] from Running and
\* [unfreeze, stop, delete] from Frozen; create, start, restart, freeze and
\* apply-config are never executed and delete is the last operation.
C4_AbsentSequence ==
    /\ (Succeeded /\ state = "absent")
       => ops = CASE old_state = "absent" -> << >>
                  [] old_state = "stopped" -> <<"delete">>
                  [] old_state = "started" -> <<"stop", "delete">>
                  [] old_state = "frozen" -> <<"unfreeze", "stop", "delete">>
    /\ state = "absent"
       => /\ \A i \in 1..Len(ops) :
                 ops[i] \notin {"create", "start", "restart", "freeze",
                               "apply_container_configs"}
          /\ \A i \in 1..Len(ops) : ops[i] = "delete" => i = Len(ops)

\* C4 witness: a real run unfroze, stopped and deleted a frozen instance whose
\* config differs from the declared one.
C4_Witness ==
    /\ Succeeded /\ ~check_mode /\ state = "absent" /\ old_state = "frozen"
    /\ ObservedNeedsApply
    /\ ops = <<"unfreeze", "stop", "delete">>
    /\ srv_status = "absent"

\* C5: for desired=frozen a run that ended with exit_json executed exactly
\* [create, start, freeze] from Absent, [start, apply-config iff needsApply,
\* freeze] from Stopped and [apply-config iff needsApply, freeze] from Running
\* or Frozen; freeze is executed on every path and unfreeze never.
C5_FrozenSequence ==
    /\ (Succeeded /\ state = "frozen")
       => /\ ops = CASE old_state = "absent" -> <<"create", "start", "freeze">>
                     [] old_state = "stopped" ->
                            <<"start">> \o ApplyConfigIf(ObservedNeedsApply)
                                        \o <<"freeze">>
                     [] old_state \in {"started", "frozen"} ->
                            ApplyConfigIf(ObservedNeedsApply) \o <<"freeze">>
          /\ \E i \in 1..Len(ops) : ops[i] = "freeze"
    /\ state = "frozen" => \A i \in 1..Len(ops) : ops[i] # "unfreeze"

\* C5 witness: a real run on a frozen instance that needs no config executed
\* freeze alone and reported a change.
C5_Witness ==
    /\ Succeeded /\ ~check_mode /\ state = "frozen" /\ old_state = "frozen"
    /\ ~ObservedNeedsApply
    /\ ops = <<"freeze">>
    /\ result.changed

\* C6: for desired=restarted a run that ended with exit_json executed exactly
\* [create, start] from Absent, without restart, and [unfreeze iff Frozen,
\* apply-config iff needsApply, restart] from an existing instance, restart
\* last.
C6_RestartedSequence ==
    (Succeeded /\ state = "restarted")
    => ops = IF old_state = "absent"
             THEN <<"create", "start">>
             ELSE (IF old_state = "frozen" THEN <<"unfreeze">> ELSE << >>)
                  \o ApplyConfigIf(ObservedNeedsApply)
                  \o <<"restart">>

\* C6 witness: a real run unfroze, reconfigured and restarted a frozen instance.
C6_Witness ==
    /\ Succeeded /\ ~check_mode /\ state = "restarted" /\ old_state = "frozen"
    /\ ObservedNeedsApply
    /\ ops = <<"unfreeze", "apply_container_configs", "restart">>

\* C7 (as claimed): the reported actions list has one entry per executed
\* operation, in execution order, each the operation's name, one of create,
\* start, stop, restart, delete, freeze, unfreeze, apply_container_configs.
C7_ActionsNameOperations ==
    Succeeded
    => /\ result.actions = ops
       /\ \A i \in 1..Len(result.actions) :
              result.actions[i] \in {"create", "start", "stop", "restart", "delete",
                                     "freeze", "unfreeze", "apply_container_configs"}
       /\ result.changed = (ops # << >>)

\* C8 (as claimed): a dry run issues no request other than reads, at any
\* point of the run.
C8_DryRunIssuesOnlyReads ==
    check_mode => \A i \in 1..Len(requests) : requests[i].method = "GET"

\* the reported name of the operation a handler method executes
ReportedAs(method) ==
    CASE method = "_create_container" -> "create"
      [] method = "_start_container" -> "start"
      [] method = "_stop_container" -> "stop"
      [] method = "_restart_container" -> "restart"
      [] method = "_delete_container" -> "delete"
      [] method = "_freeze_container" -> "freeze"
      [] method = "_unfreeze_container" -> "unfreez"
      [] method = "_apply_container_configs" -> "apply_container_configs"

\* what a real run in which every call succeeds reports for the observed
\* snapshot and the declared specification
RealRunActions ==
    LET IsOperation(m) == m # "_get_addresses"
        methods == SelectSeq(Handler(state, old_state, config, observed,
                                     wait_for_ipv4_addresses), IsOperation)
    IN [i \in 1..Len(methods) |-> ReportedAs(methods[i])]

RealRunDiffAfter ==
    Update([state |-> state],
           IF \E i \in 1..Len(RealRunActions) :
                  RealRunActions[i] = "apply_container_configs"
           THEN [instance |-> ApplyBodyJson(config, observed)]
           ELSE << >>)

\* the run ended with the result of the real run
ReportsRealRunResult ==
    /\ outcome = "exit_json"
    /\ result.actions = RealRunActions
    /\ result.changed = (RealRunActions # << >>)
    /\ result.old_state = _container_json_to_module_state(observed)
    /\ result.diff.after = RealRunDiffAfter

\* Every real run in which no call fails ends with exit_json and reports
\* RealRunActions and RealRunDiffAfter: they are what the real run produces.
RealRunReports ==
    (~check_mode /\ pc = "done" /\ outcome # "fail_json" /\ HasMetadataDict(observed))
    => ReportsRealRunResult

\* C9 (as claimed): a dry run in which no call fails ends with a result, and
\* its actions, changed, old_state and diff.after are those the real run
\* produces for the same observed snapshot and declared specification.
C9_DryRunPredictsRealRun ==
    (check_mode /\ pc = "done" /\ outcome # "fail_json" /\ HasMetadataDict(observed))
    => ReportsRealRunResult

\* C10 (as claimed): a real run that waits for addresses with a positive
\* timeout never ends as a success that lacks the addresses.
C10_TimeoutIsFailure ==
    (/\ Succeeded /\ ~check_mode
     /\ wait_for_ipv4_addresses /\ state \in {"started", "restarted"}
     /\ timeout > 0)
    => "addresses" \in DOMAIN result

\* a request of a lifecycle operation: create, a state change, delete, update
IsLifecycleRequest(r) == r.method \in {"POST", "PUT", "DELETE"}

\* the run ended with fail_json because the last request raised
\* a call of the run failed (a client that could not be constructed has sent
\* no request)
Failed == pc = "done" /\ outcome = "fail_json" /\ requests # << >>

\* the failing call was a lifecycle operation's (the last of ops)
LifecycleCallFailed ==
    Failed /\ IsLifecycleRequest(requests[Len(requests)])

\* the operations whose calls completed (in a dry run: were recorded)
CompletedOps ==
    IF LifecycleCallFailed THEN SubSeq(ops, 1, Len(ops) - 1) ELSE ops

\* C11 (as claimed): in a dry run with wait-for-address requested no
\* network-state fetch is issued, no poll iteration happens and no addresses
\* are reported.
C11_DryRunSkipsAddressWaiter ==
    (check_mode /\ wait_for_ipv4_addresses)
    => /\ \A i \in 1..Len(requests) : requests[i].path # "/name/state"
       /\ elapsed = 0
       /\ addresses = None
       /\ "addresses" \notin DOMAIN result

\* C12 (as claimed): when a call fails the run stops there, with no further
\* call, and the failure result's actions list is exactly the operations
\* whose calls completed before the failing one, in order, the failing
\* operation not among them.
C12_FailureReportsCompletedPrefix ==
    Failed
    => /\ ~ENABLED Next
       /\ result.actions = CompletedOps

\* What does hold of a failure: the run stops there, and the actions list has
\* one entry per completed operation, in order, each the operation's name but
\* for unfreeze, which is listed as 'unfreez'.
FailureReportsCompletedCalls ==
    Failed
    => /\ ~ENABLED Next
       /\ result.actions =
              [i \in 1..Len(CompletedOps) |->
                   IF CompletedOps[i] = "unfreeze" THEN "unfreez" ELSE CompletedOps[i]]

\* the number of lifecycle requests of the run that completed
CompletedLifecycleCalls ==
    Len(SelectSeq(requests, IsLifecycleRequest))
        - (IF LifecycleCallFailed THEN 1 ELSE 0)

\* the changed member and the actions list of the result; the result of a
\* client that could not be constructed has neither, which reports no change
\* and no action
ReportedChanged == "changed" \in DOMAIN result /\ result.changed

ReportedActions == IF "actions" \in DOMAIN result THEN result.actions ELSE << >>

\* C13: in every result, of exit_json or fail_json, dry run or not, changed
\* is true iff the reported actions list is not empty; and in a real run the
\* list is not empty iff at least one lifecycle operation's call completed.
C13_ChangedIffActions ==
    (pc = "done" /\ outcome \in {"exit_json", "fail_json"})
    => /\ ReportedChanged <=> (ReportedActions # << >>)
       /\ "changed" \in DOMAIN result <=> "actions" \in DOMAIN result
       /\ ~check_mode => ((ReportedActions # << >>) <=> (CompletedLifecycleCalls > 0))

\* C13 witness: a real run failed at its second lifecycle call and reported
\* changed = true with the one action that completed.
C13_Witness ==
    /\ Failed /\ ~check_mode
    /\ LifecycleCallFailed
    /\ CompletedLifecycleCalls = 1
    /\ Len(result.actions) = 1
    /\ result.changed


(***************************************************************************)
(* ConfigDiffer and apply-config, under SpecConfig.                        *)
(***************************************************************************)
Fetched == observed.type = "sync"

DeclaresVolatileKey ==
    "config" \in DOMAIN config /\ \E k \in DOMAIN config.config : StartsWithVolatile(k)

\* the attributes of the declared set that are not creation-only
SpecifiedMutable == DOMAIN config \ {"source", "type"}

\* the attribute differs from the instance whose metadata is meta
Differs(attr, meta) ==
    IF attr = "config"
    THEN \E k \in DOMAIN config.config :
             k \notin DOMAIN meta.config \/ meta.config[k] # config.config[k]
    ELSE config[attr] # meta[attr]

\* the same, the volatile keys of the instance taken as absent
DiffersFromNonVolatile(attr, meta) ==
    IF attr = "config"
    THEN \E k \in DOMAIN config.config :
             \/ k \notin DOMAIN meta.config
             \/ StartsWithVolatile(k)
             \/ meta.config[k] # config.config[k]
    ELSE config[attr] # meta[attr]

AppliedConfig == \E i \in 1..Len(ops) : ops[i] = "apply_container_configs"

\* C14: needsApply is true if and only if some non-creation attribute the
\* declared set specifies differs from the observed instance: for config, a
\* declared key missing from the observed config or carrying another value
\* there; for every other attribute, plain inequality.  source and type never
\* contribute, nor does an attribute left unspecified.  A started run on a
\* running instance applies config exactly in that case.
C14_NeedsApplyIffDiffers ==
    Fetched =>
        /\ _needs_to_apply_container_configs(config, observed)
               <=> \E attr \in SpecifiedMutable : Differs(attr, observed.metadata)
        /\ Succeeded =>
               (AppliedConfig <=> \E attr \in SpecifiedMutable : Differs(attr, observed.metadata))

\* What the code decides: a declared volatile key always counts as differing.
NeedsApplyIffDiffersFromNonVolatile ==
    Fetched =>
        /\ _needs_to_apply_container_configs(config, observed)
               <=> \E attr \in SpecifiedMutable : DiffersFromNonVolatile(attr, observed.metadata)
        /\ Succeeded =>
               (AppliedConfig
                   <=> \E attr \in SpecifiedMutable : DiffersFromNonVolatile(attr, observed.metadata))

\* C14 fails only on a declared volatile key.
NeedsApplyIffDiffersUnlessVolatileDeclared ==
    ~DeclaresVolatileKey => C14_NeedsApplyIffDiffers

\* the observed instance without the volatile keys of its config
WithoutVolatile(json) ==
    [json EXCEPT !.metadata.config =
        Restrict(@, {k \in DOMAIN @ : ~StartsWithVolatile(k)})]

\* the diff decision does not depend on the observed volatile keys
DecisionIgnoresObservedVolatile ==
    Fetched =>
        _needs_to_apply_container_configs(config, observed)
            = _needs_to_apply_container_configs(config, WithoutVolatile(observed))

\* C15: the volatile keys of the observed config are ignored in the diff
\* decision, and the reported diff.before.instance.config holds no volatile key.
C15_ObservedVolatileIgnored ==
    /\ DecisionIgnoresObservedVolatile
    /\ (pc = "done" /\ outcome = "exit_json")
           => \A k \in DOMAIN result.diff.before.instance.config : ~StartsWithVolatile(k)

\* attrs is the per-key superset merge of the declared set onto the observed
\* metadata
IsSupersetMerge(attrs, meta) ==
    /\ DOMAIN attrs = CONFIG_PARAMS \ CONFIG_CREATION_PARAMS
    /\ IF "config" \in DOMAIN config
          THEN /\ DOMAIN attrs.config = DOMAIN meta.config \cup DOMAIN config.config
               /\ \A k \in DOMAIN config.config : attrs.config[k] = config.config[k]
               /\ \A k \in DOMAIN meta.config \ DOMAIN config.config :
                      attrs.config[k] = meta.config[k]
          ELSE attrs.config = meta.config
    /\ \A a \in DOMAIN attrs \ {"config"} :
          attrs[a] = IF a \in DOMAIN config /\ config[a] # meta[a]
                        THEN config[a] ELSE meta[a]

\* C16: what apply-config pushes, reports as diff.after.instance and the
\* control plane stores, is the per-key superset merge: every declared config
\* key carries the declared value, every observed key the declared config
\* lacks keeps its observed value, and every other non-creation attribute
\* carries the declared value when it differs and the observed one otherwise.
C16_ApplyPushesSupersetMerge ==
    (AppliedConfig /\ outcome # "fail_json")
    => /\ IsSupersetMerge(diff.after.instance, observed.metadata)
       /\ ~check_mode =>
              Restrict(srv_metadata, CONFIG_PARAMS \ CONFIG_CREATION_PARAMS)
                  = diff.after.instance

\* limits.cpu=1 observed next to a key the declared config lacks, limits.cpu=2
\* declared: limits.cpu=2 and the other key are reported and stored
C16_Witness ==
    /\ Succeeded /\ ~check_mode /\ AppliedConfig
    /\ ImageKey \in DOMAIN observed.metadata.config
    /\ CpuKey \in DOMAIN observed.metadata.config
    /\ observed.metadata.config[CpuKey] = "1"
    /\ "config" \in DOMAIN config
    /\ DOMAIN config.config = {CpuKey}
    /\ config.config[CpuKey] = "2"
    /\ result.diff.after.instance.config[CpuKey] = "2"
    /\ result.diff.after.instance.config[ImageKey] = "ubuntu"
    /\ srv_metadata.config[CpuKey] = "2"

\* C17: once apply-config has stored what it pushed, needsApply for the same
\* declared set against the resulting instance is false, and no volatile key of
\* the observed config has been overwritten.
C17_ApplyConverges ==
    (Succeeded /\ ~check_mode /\ AppliedConfig)
    => /\ \A json \in InstanceResponses(srv_status, srv_metadata) :
              ~_needs_to_apply_container_configs(config, json)
       /\ \A k \in DOMAIN observed.metadata.config :
              StartsWithVolatile(k)
              => /\ k \in DOMAIN srv_metadata.config
                 /\ srv_metadata.config[k] = observed.metadata.config[k]

\* Without a declared volatile key apply-config converges.
ApplyConvergesUnlessVolatileDeclared ==
    ~DeclaresVolatileKey => C17_ApplyConverges

(***************************************************************************)
(* AddressWaiter.                                                          *)
(***************************************************************************)
\* the devices of the last polled network state, lo apart
PolledDevices ==
    IF state_json.type = "sync" /\ state_json.metadata.network # None
    THEN DOMAIN state_json.metadata.network[1] \ {"lo"}
    ELSE {}

\* the IPv4 addresses the last polled network state gives for device d
PolledIpv4(d) ==
    LET a == state_json.metadata.network[1][d].addresses
    IN {a[i].address : i \in {j \in 1..Len(a) : a[j].family = "inet"}}

EveryPolledDeviceHasIpv4 ==
    /\ PolledDevices # {}
    /\ \A d \in PolledDevices : PolledIpv4(d) # {}

\* C18: the AddressWaiter succeeds, and addresses are in the result, only when
\* the polled network state has a device other than lo and each such device
\* has an IPv4 address; a device without one blocks success; lo and the
\* addresses of other families are not in the reported mapping.
C18_AddressesOnlyWhenAllDevicesHaveIpv4 ==
    /\ state_json.type = "sync" => ((addresses # None) <=> EveryPolledDeviceHasIpv4)
    /\ addresses # None
          => /\ state_json.type = "sync"
             /\ DOMAIN addresses[1] = PolledDevices
             /\ \A d \in PolledDevices :
                    {addresses[1][d][i] : i \in 1..Len(addresses[1][d])} = PolledIpv4(d)
    /\ pc = "done"
          => IF outcome = "exit_json" /\ addresses # None
             THEN "addresses" \in DOMAIN result /\ result.addresses = addresses[1]
             ELSE "addresses" \notin DOMAIN result

\* lo and eth0 polled, eth0 with an inet6 and an inet address: eth0 is reported
\* with the inet address alone
C18_Witness ==
    /\ Succeeded
    /\ "addresses" \in DOMAIN result
    /\ state_json.type = "sync"
    /\ DOMAIN state_json.metadata.network[1] = {"lo", "eth0"}
    /\ Len(state_json.metadata.network[1]["eth0"].addresses) = 2
    /\ result.addresses = [eth0 |-> <<"10.0.0.2">>]

StartLikeExecuted ==
    \E i \in 1..Len(ops) : ops[i] \in {"start", "unfreeze", "restart"}

\* once the AddressWaiter has run no lifecycle operation is left to run
WaitsAfterLifecycleOperations ==
    waited => \A i \in 1..Len(calls) : calls[i] = "_get_addresses"

\* C19 (as claimed): in a real run the AddressWaiter runs if and only if the
\* wait for addresses was requested and a start, unfreeze or restart was
\* executed, and it runs after all lifecycle operations.
C19_WaitsIffStartLikeExecuted ==
    /\ (Succeeded /\ ~check_mode)
          => (waited <=> (wait_for_ipv4_addresses /\ StartLikeExecuted))
    /\ WaitsAfterLifecycleOperations

\* C19 (amended): in a real run the AddressWaiter runs if and only if the wait
\* for addresses was requested and the desired state is started or restarted,
\* whether or not a start, unfreeze or restart was executed, and it runs after
\* all lifecycle operations.
C19_WaitsIffStartedOrRestarted ==
    /\ (Succeeded /\ ~check_mode)
          => (waited <=> (wait_for_ipv4_addresses /\ state \in {"started", "restarted"}))
    /\ waited => wait_for_ipv4_addresses /\ state \in {"started", "restarted"}
    /\ WaitsAfterLifecycleOperations

\* a stopped instance was started and the addresses were then polled for
C19_Witness ==
    /\ Succeeded /\ ~check_mode /\ waited /\ wait_for_ipv4_addresses
    /\ state = "started" /\ old_state = "stopped"
    /\ ops[Len(ops)] = "start"
    /\ requests[Len(requests)] = Request("GET", "/name/state", "")

\* a running instance asked to be started: nothing is executed, yet the
\* addresses are polled for and reported
WaitsWithoutStartLike ==
    ~(/\ Succeeded /\ ~check_mode /\ state = "started" /\ old_state = "started"
      /\ ops = << >> /\ waited /\ "addresses" \in DOMAIN result)

\* a stopped instance asked to be frozen is started, and nothing waits
StartLikeWithoutWait ==
    ~(/\ Succeeded /\ ~check_mode /\ state = "frozen" /\ wait_for_ipv4_addresses
      /\ StartLikeExecuted /\ ~waited)

(***************************************************************************)
(* Authentication.                                                         *)
(***************************************************************************)
\* __init__ ended with fail_json: run() did not start and sent nothing
ClientRejected == pc = "done" /\ outcome = "fail_json" /\ requests = << >>

\* C20: with a trust password the authentication request is the first request
\* of the run, before the fetch and before every lifecycle request, and if it
\* fails no other request is sent; without one no authentication request is
\* sent.
C20_AuthenticationFirst ==
    /\ \A i \in 1..Len(requests) :
          requests[i] = AuthenticateRequest <=> (i = 1 /\ trust_password # None)
    /\ (trust_password # None /\ pc # "authenticate" /\ ~ClientRejected)
          => Len(requests) >= 1
    /\ (Failed /\ requests[Len(requests)] = AuthenticateRequest)
          => /\ Len(requests) = 1
             /\ observed = Unset
             /\ ~ENABLED Next

\* a password was given, the authentication succeeded and the run went on to
\* fetch the instance and change it
C20_Witness ==
    /\ Succeeded /\ trust_password # None
    /\ Len(requests) >= 3
    /\ requests[1] = AuthenticateRequest
    /\ requests[2] = Request("GET", "/name", "")
    /\ IsLifecycleRequest(requests[3])

\* a password was given and the authentication failed
AuthenticationFailureReached ==
    ~(Failed /\ requests = <<AuthenticateRequest>>)

(***************************************************************************)
(* The instance tracked through the run.                                   *)
(***************************************************************************)
\* the status the fetch found
ObservedStatus == IF observed.type = "sync" THEN observed.metadata.status ELSE "absent"

\* the status after the first n operations of the run, each taking effect as
\* the control plane applies it
RECURSIVE TrackedStatus(_)
TrackedStatus(n) ==
    IF n = 0 THEN ObservedStatus
    ELSE ServerStatusAfter(TrackedStatus(n - 1), ops[n])

\* the desired state as a status of the instance
TargetStatus ==
    CASE state \in {"started", "restarted"} -> "Running"
      [] state = "stopped" -> "Stopped"
      [] state = "frozen" -> "Frozen"
      [] state = "absent" -> "absent"

RestartedWhileStopped ==
    \E i \in 1..Len(ops) : ops[i] = "restart" /\ TrackedStatus(i - 1) = "Stopped"

\* C21: every real run that completes without failure leaves the instance in
\* the requested target state, whatever was observed: started and restarted
\* leave it Running, stopped Stopped, frozen Frozen, absent absent.
C21_RunReachesTarget ==
    (Succeeded /\ ~check_mode)
    => /\ srv_status = TargetStatus
       /\ TrackedStatus(Len(ops)) = TargetStatus

\* Every completed real run but the one that restarts a stopped instance
\* reaches its target.
RunReachesTargetUnlessRestartedWhileStopped ==
    ~RestartedWhileStopped => C21_RunReachesTarget

\* the states of the instance an operation is defined for
Precondition(op, status) ==
    CASE op = "create" -> status = "absent"
      [] op = "start" -> status = "Stopped"
      [] op = "stop" -> status \in {"Running", "Frozen"}
      [] op = "restart" -> status = "Running"
      [] op = "unfreeze" -> status = "Frozen"
      [] op = "delete" -> status = "Stopped"
      [] OTHER -> TRUE

\* C22: every operation other than freeze (and apply-config) is issued only
\* when the instance, tracked from the observed state through the run's
\* earlier operations, satisfies its precondition: create when absent, start
\* when Stopped, stop when Running or Frozen, restart when Running, unfreeze
\* when Frozen, delete when Stopped.
C22_OperationsMeetPreconditions ==
    \A i \in 1..Len(ops) : Precondition(ops[i], TrackedStatus(i - 1))

\* Every operation but restart is issued within its precondition.
OperationsButRestartMeetPreconditions ==
    \A i \in 1..Len(ops) :
        ops[i] # "restart" => Precondition(ops[i], TrackedStatus(i - 1))

\* C23: apply-config is never issued to an instance that is Stopped at that
\* moment: when config is applied to an instance observed Stopped, a start
\* was executed before it, for every desired state.
C23_NoApplyWhileStopped ==
    \A i \in 1..Len(ops) :
        ops[i] = "apply_container_configs"
        => /\ TrackedStatus(i - 1) # "Stopped"
           /\ old_state = "stopped" => \E j \in 1..(i - 1) : ops[j] = "start"

\* For every desired state but restarted, apply-config is not issued to a
\* stopped instance.
NoApplyWhileStoppedUnlessRestarted ==
    state # "restarted" => C23_NoApplyWhileStopped

(***************************************************************************)
(* The before-snapshot.                                                    *)
(***************************************************************************)
Reported == pc = "done" /\ outcome \in {"exit_json", "fail_json"} /\ observed # Unset

NonVolatile(cfg) == {k \in DOMAIN cfg : ~StartsWithVolatile(k)}

\* the reported before-instance carries the fetched values: every attribute
\* but config as fetched, and of config the fetched keys with the fetched
\* values (the volatile keys apart)
BeforeInstanceAsFetched ==
    LET before == result.diff.before.instance
        fetched == Restrict(observed.metadata,
                            DOMAIN observed.metadata
                                \cap (CONFIG_PARAMS \ CONFIG_CREATION_PARAMS))
    IN /\ DOMAIN before = DOMAIN fetched
       /\ \A a \in DOMAIN fetched \ {"config"} : before[a] = fetched[a]
       /\ "config" \in DOMAIN fetched
             => /\ NonVolatile(before.config) = NonVolatile(fetched.config)
                /\ \A k \in NonVolatile(fetched.config) :
                       before.config[k] = fetched.config[k]

\* C24: in the reported result diff.before.state and diff.before.instance are
\* the state and the attribute values fetched at the start of the run, also
\* when apply-config ran and changed config keys.
C24_BeforeSnapshotIsObserved ==
    Reported
    => /\ result.diff.before.state = _container_json_to_module_state(observed)
       /\ BeforeInstanceAsFetched

\* The before-state is the fetched one in every reported run, and so is the
\* before-instance when apply-config did not run on a declared config.
BeforeSnapshotIsObservedUnlessConfigApplied ==
    Reported
    => /\ result.diff.before.state = _container_json_to_module_state(observed)
       /\ (AppliedConfig /\ "config" \in DOMAIN config) \/ BeforeInstanceAsFetched
====
